---- MODULE Spec2Model ----
(***************************************************************************)
(* Model of the polygon drawer of src/src/components/map/Map.tsx: the      *)
(* coordinate normalizer (toPosition / isClosedPolygon), the overlap       *)
(* checker (toGeoJSON / checkIntersections), the three component state     *)
(* cells (polygons, intersectingIndex, intersectingIndices), the three     *)
(* draw-control handlers (handleCreated, handleDeleted, handleEdited) and  *)
(* the colour each stored polygon is rendered with.                        *)
(*                                                                         *)
(* A LatLng is a record [lat, lng]; a Position is a pair <<lat, lng>>.     *)
(* JavaScript indices are 0-based: the polygon with JavaScript index i is  *)
(* polygons[i + 1] here.                                                   *)
(***************************************************************************)
EXTENDS Integers, Sequences, FiniteSets, TLC

\* ------------------------------------------------------------------------
\* Bounds of the model
\* ------------------------------------------------------------------------
MaxPolys == 3

MaxDeleted == 2

MaxEdited == 1

MaxLen == 4

MaxCalls == 2

\* ------------------------------------------------------------------------
\* Values
\* ------------------------------------------------------------------------
\* null, as held by intersectingIndex and returned by checkIntersections
Null == -1

\* the result of Array.prototype.findIndex when nothing matches
NotFound == -1

\* marks an exception raised by the geometry library
Threw == -2

LL(a, b) == [lat |-> a, lng |-> b]

\* ------------------------------------------------------------------------
\* Coordinate normalizer
\* ------------------------------------------------------------------------
isClosedPolygonNoLength(positions) ==
    /\ Len(positions) > 0
    /\ positions[1][1] = positions[Len(positions)][1]
    /\ positions[1][2] = positions[Len(positions)][2]

isClosedPolygonLatOnly(positions) ==
    /\ Len(positions) > 2
    /\ positions[1][1] = positions[Len(positions)][1]

isClosedPolygon(positions) ==
    /\ Len(positions) > 2
    /\ positions[1][1] = positions[Len(positions)][1]
    /\ positions[1][2] = positions[Len(positions)][2]

toPositionAlwaysPush(latlngs) ==
    LET positions == [i \in 1..Len(latlngs) |-> <<latlngs[i].lat, latlngs[i].lng>>]
    IN  IF Len(positions) > 0 THEN Append(positions, positions[1]) ELSE positions

toPosition(latlngs) ==
    LET positions == [i \in 1..Len(latlngs) |-> <<latlngs[i].lat, latlngs[i].lng>>]
    IN  IF Len(positions) > 0 /\ ~isClosedPolygon(positions)
        THEN Append(positions, positions[1])
        ELSE positions

\* The LatLng list a layer reports for a polygon drawn from `positions`
\* (<Polygon positions={polygon}>): one LatLng per position.
toLatLngs(positions) ==
    [i \in 1..Len(positions) |-> LL(positions[i][1], positions[i][2])]

\* JSON.stringify of a Position[]: the decimal text of every coordinate
stringify(positions) ==
    [i \in 1..Len(positions) |->
        <<ToString(positions[i][1]), ToString(positions[i][2])>>]

\* positions a and b serialize to the same text
sameJSON(a, b) == stringify(a) = stringify(b)

\* ------------------------------------------------------------------------
\* Geometry library (turf), on integer coordinates
\* ------------------------------------------------------------------------
\* turf.polygon([ring]) raises unless the ring has at least 4 positions and
\* its first and last positions are equal.
ValidRing(positions) ==
    /\ Len(positions) >= 4
    /\ positions[1] = positions[Len(positions)]

Cross(o, a, b) == (a[1] - o[1]) * (b[2] - o[2]) - (a[2] - o[2]) * (b[1] - o[1])

Min(a, b) == IF a < b THEN a ELSE b

Max(a, b) == IF a > b THEN a ELSE b

\* r lies on the closed segment p-q
OnSegment(p, q, r) ==
    /\ Cross(p, q, r) = 0
    /\ Min(p[1], q[1]) <= r[1] /\ r[1] <= Max(p[1], q[1])
    /\ Min(p[2], q[2]) <= r[2] /\ r[2] <= Max(p[2], q[2])

Sgn(x) == IF x > 0 THEN 1 ELSE IF x < 0 THEN -1 ELSE 0

\* the closed segments a-b and c-d share a point
SegmentsIntersect(a, b, c, d) ==
    \/ /\ Sgn(Cross(a, b, c)) * Sgn(Cross(a, b, d)) < 0
       /\ Sgn(Cross(c, d, a)) * Sgn(Cross(c, d, b)) < 0
    \/ OnSegment(a, b, c)
    \/ OnSegment(a, b, d)
    \/ OnSegment(c, d, a)
    \/ OnSegment(c, d, b)

\* some edge of ring p meets some edge of ring q
EdgesIntersect(p, q) ==
    \E i \in 1..(Len(p) - 1) : \E j \in 1..(Len(q) - 1) :
        SegmentsIntersect(p[i], p[i + 1], q[j], q[j + 1])

\* pt lies inside ring or on its boundary (crossing number, integer form)
PointInPolygon(pt, ring) ==
    \/ \E i \in 1..(Len(ring) - 1) : OnSegment(ring[i], ring[i + 1], pt)
    \/ Cardinality({i \in 1..(Len(ring) - 1) :
            LET a == ring[i]
                b == ring[i + 1]
            IN  /\ (a[2] > pt[2]) # (b[2] > pt[2])
                /\ IF b[2] > a[2]
                   THEN (pt[1] - a[1]) * (b[2] - a[2]) < (pt[2] - a[2]) * (b[1] - a[1])
                   ELSE (pt[1] - a[1]) * (b[2] - a[2]) > (pt[2] - a[2]) * (b[1] - a[1])
        }) % 2 = 1

\* turf.booleanOverlap: the polygons are not equal and their boundaries meet
booleanOverlap(p, q) == p # q /\ EdgesIntersect(p, q)

\* turf.booleanCrosses: the crosses relation never holds between two areas
booleanCrosses(p, q) == FALSE

\* turf.booleanIntersects: the polygons are not disjoint
booleanIntersects(p, q) ==
    \/ \E i \in 1..Len(p) : PointInPolygon(p[i], q)
    \/ \E j \in 1..Len(q) : PointInPolygon(q[j], p)
    \/ EdgesIntersect(p, q)

\* ------------------------------------------------------------------------
\* Shapes the draw control reports (LatLng lists of a layer)
\* ------------------------------------------------------------------------
\* a triangle
T1 == <<LL(0, 0), LL(0, 2), LL(2, 0)>>

\* a triangle whose area overlaps T1
T2 == <<LL(1, 0), LL(1, 2), LL(3, 0)>>

\* a triangle disjoint from T1 and T2
T3 == <<LL(4, 4), LL(4, 5), LL(5, 4)>>

\* T1 reported with its closing point
T1c == <<LL(0, 0), LL(0, 2), LL(2, 0), LL(0, 0)>>

\* a degenerate shape: two points
Seg == <<LL(0, 0), LL(1, 1)>>

CreateShapes == {T1, T2, T3, Seg}

LayerShapes == {T1c, T2}

\* every Position list the handlers can obtain from a reported shape
Rings == {toPosition(s) : s \in CreateShapes \cup LayerShapes}

\* the condition of checkIntersections' if statement, evaluated once for
\* every pair of rings
ConflictTable ==
    [p \in Rings |-> [q \in Rings |->
        booleanOverlap(p, q) \/ booleanCrosses(p, q) \/ booleanIntersects(p, q)]]

Conflicts(p, q) == ConflictTable[p][q]

\* JSON.stringify(p) === JSON.stringify(q), evaluated once for every pair of rings
SameJSONTable == [p \in Rings |-> [q \in Rings |-> sameJSON(p, q)]]

deepEqual(p, q) == SameJSONTable[p][q]


\* toGeoJSON raises (turf.polygon) on a ring that is not valid
toGeoJSONThrows(positions) == ~ValidRing(positions)

RECURSIVE checkFrom(_, _, _)
\* the for loop of checkIntersections, from JavaScript index i on
checkFrom(newPolygon, existingPolygons, i) ==
    IF i >= Len(existingPolygons) THEN Null
    ELSE IF toGeoJSONThrows(existingPolygons[i + 1]) THEN Threw
    ELSE IF Conflicts(newPolygon, existingPolygons[i + 1]) THEN i
    ELSE checkFrom(newPolygon, existingPolygons, i + 1)

checkIntersectionsConvertingInLoop(newPolygon, existingPolygons) ==
    IF Len(existingPolygons) = 0 THEN Null
    ELSE IF toGeoJSONThrows(newPolygon) THEN Threw
    ELSE checkFrom(newPolygon, existingPolygons, 0)

checkIntersectionsFromSecond(newPolygon, existingPolygons) ==
    IF toGeoJSONThrows(newPolygon) THEN Threw
    ELSE checkFrom(newPolygon, existingPolygons, 1)

\* the index of the first polygon of existingPolygons that newPolygon
\* conflicts with, Null when there is none, Threw when turf.polygon raises
checkIntersections(newPolygon, existingPolygons) ==
    IF toGeoJSONThrows(newPolygon) THEN Threw
    ELSE checkFrom(newPolygon, existingPolygons, 0)

\* ------------------------------------------------------------------------
\* State
\* ------------------------------------------------------------------------
VARIABLES
    polygons,             \* useState<Position[][]>([])
    intersectingIndex,    \* useState<number | null>(null)
    intersectingIndices,  \* useState<number[]>([])
    rendered,             \* the value of `polygons` the handlers of the last render closed over
    mounted,              \* FALSE once an exception reached the render phase
    lastEvent,            \* the event handled last: its type, its layers, whether it raised
    pre,                  \* the three state cells as they were when lastEvent arrived
    normIn,               \* normalizer harness: the LatLng list given to toPosition
    normOut,              \* normalizer harness: the Position list returned last
    normCalls,            \* normalizer harness: how often toPosition was applied
    ckNewPolygon,         \* checker harness: the newPolygon given to checkIntersections
    ckExistingPolygons,   \* checker harness: the existingPolygons given to it
    ckResult,             \* checker harness: what the call returned, or Threw
    ckDone                \* checker harness: checkIntersections was called

cells == <<polygons, intersectingIndex, intersectingIndices, rendered, mounted>>

normVars == <<normIn, normOut, normCalls>>

checkVars == <<ckNewPolygon, ckExistingPolygons, ckResult, ckDone>>

vars == <<polygons, intersectingIndex, intersectingIndices, rendered, mounted,
          lastEvent, pre, normIn, normOut, normCalls,
          ckNewPolygon, ckExistingPolygons, ckResult, ckDone>>

Snapshot == [polygons |-> polygons,
             intersectingIndex |-> intersectingIndex,
             intersectingIndices |-> intersectingIndices]

Layer(k, latlngs) == [of |-> k, latlngs |-> latlngs]

Event(type, layers, threw) == [type |-> type, layers |-> layers, threw |-> threw]

InitCells ==
    /\ polygons = <<>>
    /\ intersectingIndex = Null
    /\ intersectingIndices = <<>>
    /\ rendered = <<>>
    /\ mounted = TRUE
    /\ lastEvent = Event("none", <<>>, FALSE)
    /\ pre = [polygons |-> <<>>, intersectingIndex |-> Null, intersectingIndices |-> <<>>]

\* checkIntersections has not been called on its own
InitCheckIdle ==
    /\ ckNewPolygon = <<>>
    /\ ckExistingPolygons = <<>>
    /\ ckResult = Null
    /\ ckDone = FALSE

Init ==
    /\ InitCells
    /\ InitCheckIdle
    /\ normIn = <<>>
    /\ normOut = <<>>
    /\ normCalls = 0

\* the colour of the <Polygon> rendered for JavaScript index `index`
Color(index) == IF intersectingIndex = index THEN "red" ELSE "blue"

\* ------------------------------------------------------------------------
\* handleCreated
\* ------------------------------------------------------------------------
CreatedStoreRejecting(prevPolygons, newPositions, intersectionIndex) ==
    IF intersectionIndex # Null THEN prevPolygons
    ELSE Append(prevPolygons, newPositions)

CreatedStoreUnclosed(prevPolygons, newPositions, intersectionIndex) ==
    Append(prevPolygons, SubSeq(newPositions, 1, Len(newPositions) - 1))

\* the value the updater passed to setPolygons returns (both branches)
CreatedStore(prevPolygons, newPositions, intersectionIndex) ==
    Append(prevPolygons, newPositions)

\* The updater given to setPolygons runs either at once, inside the call
\* (React computes the state eagerly when the component has no pending
\* update), or later, while React renders.  At once, its setIntersectingIndices
\* call precedes the handler's final setIntersectingIndices([]); while
\* rendering, it follows it.  `eager` chooses between the two.
CreatedIndexKept(prevPolygons, intersectionIndex) ==
    IF intersectionIndex # Null THEN Len(prevPolygons) ELSE intersectingIndex

CreatedIndexOfConflict(prevPolygons, intersectionIndex) ==
    IF intersectionIndex # Null THEN intersectionIndex ELSE Null

\* the value the updater passes to setIntersectingIndex
CreatedIndex(prevPolygons, intersectionIndex) ==
    IF intersectionIndex # Null THEN Len(prevPolygons) ELSE Null

\* `rerender` tells whether React renders the component again before the
\* next event is handled, so that the handlers close over the new `polygons`.
handleCreatedThen(latlngs, eager, rerender) ==
    LET newPositions == toPosition(latlngs)
        intersectionIndex == checkIntersections(newPositions, polygons)
    IN  /\ mounted
        /\ Len(polygons) < MaxPolys
        /\ pre' = Snapshot
        /\ IF intersectionIndex = Threw
           THEN \* the updater raises: the exception reaches the render phase
                /\ lastEvent' = Event("created", <<Layer(Null, latlngs)>>, TRUE)
                /\ mounted' = FALSE
                /\ UNCHANGED <<polygons, intersectingIndex, intersectingIndices, rendered>>
           ELSE /\ lastEvent' = Event("created", <<Layer(Null, latlngs)>>, FALSE)
                /\ polygons' = CreatedStore(polygons, newPositions, intersectionIndex)
                /\ intersectingIndex' = CreatedIndex(polygons, intersectionIndex)
                /\ intersectingIndices' =
                      IF intersectionIndex # Null /\ ~eager
                      THEN <<intersectionIndex, Len(rendered)>>
                      ELSE <<>>
                /\ rendered' = IF rerender THEN polygons' ELSE rendered
                /\ UNCHANGED mounted
        /\ UNCHANGED <<normVars, checkVars>>

handleCreated(latlngs, eager) == handleCreatedThen(latlngs, eager, TRUE)

\* ------------------------------------------------------------------------
\* handleDeleted
\* ------------------------------------------------------------------------
\* layers.getLayers().map(layer => toPosition(layer.getLatLngs()[0]))
layerPositions(layers) == [i \in 1..Len(layers) |-> toPosition(layers[i].latlngs)]

isDeletedEvery(polygon, layers) ==
    \A i \in 1..Len(layers) :
        deepEqual(polygon, layerPositions(layers)[i])

\* layerPositions.some(deleted => JSON.stringify(polygon) === JSON.stringify(deleted))
isDeleted(polygon, layers) ==
    \E i \in 1..Len(layers) :
        deepEqual(polygon, layerPositions(layers)[i])

RECURSIVE remainingFrom(_, _, _, _)
\* polygons.forEach: push every polygon that is not deleted
remainingFrom(polys, layers, i, remainingPolygons) ==
    IF i > Len(polys) THEN remainingPolygons
    ELSE remainingFrom(polys, layers, i + 1,
            IF ~isDeleted(polys[i], layers)
            THEN Append(remainingPolygons, polys[i])
            ELSE remainingPolygons)

handleDeletedThen(layers, rerender) ==
    /\ mounted
    /\ pre' = Snapshot
    /\ lastEvent' = Event("deleted", layers, FALSE)
    /\ polygons' = remainingFrom(rendered, layers, 1, <<>>)
    /\ intersectingIndex' = Null
    /\ rendered' = IF rerender THEN polygons' ELSE rendered
    /\ UNCHANGED <<intersectingIndices, mounted>>
    /\ UNCHANGED <<normVars, checkVars>>

handleDeleted(layers) == handleDeletedThen(layers, TRUE)

\* ------------------------------------------------------------------------
\* handleEdited
\* ------------------------------------------------------------------------
RECURSIVE findIndexFrom(_, _, _)
\* polygons.findIndex(polygon => JSON.stringify(polygon) === JSON.stringify(target))
findIndexFrom(polys, target, i) ==
    IF i >= Len(polys) THEN NotFound
    ELSE IF deepEqual(polys[i + 1], target) THEN i
    ELSE findIndexFrom(polys, target, i + 1)

RECURSIVE applyEditsPushingUnmatched(_, _, _, _)
applyEditsPushingUnmatched(polys, layers, i, updatedPolygons) ==
    IF i > Len(layers) THEN updatedPolygons
    ELSE LET updatedPositions == toPosition(layers[i].latlngs)
             index == findIndexFrom(polys, toPosition(layers[i].latlngs), 0)
         IN  applyEditsPushingUnmatched(polys, layers, i + 1,
                IF index # NotFound
                THEN [updatedPolygons EXCEPT ![index + 1] = updatedPositions]
                ELSE Append(updatedPolygons, updatedPositions))

RECURSIVE applyEdits(_, _, _, _)
\* editedLayers.forEach: replace the entry the layer's positions are found at
applyEdits(polys, layers, i, updatedPolygons) ==
    IF i > Len(layers) THEN updatedPolygons
    ELSE LET updatedPositions == toPosition(layers[i].latlngs)
             index == findIndexFrom(polys, toPosition(layers[i].latlngs), 0)
         IN  applyEdits(polys, layers, i + 1,
                IF index # NotFound
                THEN [updatedPolygons EXCEPT ![index + 1] = updatedPositions]
                ELSE updatedPolygons)

\* updatedPolygons.filter((_, idx) => idx !== i)
others(updatedPolygons, i) ==
    SubSeq(updatedPolygons, 1, i) \o SubSeq(updatedPolygons, i + 2, Len(updatedPolygons))

RECURSIVE recheckFromKeepingSelf(_, _, _)
recheckFromKeepingSelf(updatedPolygons, i, indices) ==
    IF i >= Len(updatedPolygons) THEN [threw |-> FALSE, indices |-> indices]
    ELSE LET intersectionIndex ==
                 checkIntersections(updatedPolygons[i + 1], updatedPolygons)
         IN  IF intersectionIndex = Threw THEN [threw |-> TRUE, indices |-> indices]
             ELSE recheckFromKeepingSelf(updatedPolygons, i + 1,
                    IF intersectionIndex # Null THEN Append(indices, i) ELSE indices)

RECURSIVE recheckFrom(_, _, _)
\* the re-check loop: the indices i whose polygon conflicts with another one;
\* threw as soon as one check raises
recheckFrom(updatedPolygons, i, indices) ==
    IF i >= Len(updatedPolygons) THEN [threw |-> FALSE, indices |-> indices]
    ELSE LET intersectionIndex ==
                 checkIntersections(updatedPolygons[i + 1], others(updatedPolygons, i))
         IN  IF intersectionIndex = Threw THEN [threw |-> TRUE, indices |-> indices]
             ELSE recheckFrom(updatedPolygons, i + 1,
                    IF intersectionIndex # Null THEN Append(indices, i) ELSE indices)

handleEditedThen(layers, rerender) ==
    LET updatedPolygons == applyEdits(rendered, layers, 1, rendered)
        recheck == recheckFrom(updatedPolygons, 0, <<>>)
    IN  /\ mounted
        /\ pre' = Snapshot
        /\ IF recheck.threw
           THEN \* the handler raises before it sets any state
                /\ lastEvent' = Event("edited", layers, TRUE)
                /\ UNCHANGED cells
           ELSE /\ lastEvent' = Event("edited", layers, FALSE)
                /\ intersectingIndices' = recheck.indices
                /\ polygons' = updatedPolygons
                /\ rendered' = IF rerender THEN polygons' ELSE rendered
                /\ UNCHANGED <<intersectingIndex, mounted>>
        /\ UNCHANGED <<normVars, checkVars>>

handleEdited(layers) == handleEditedThen(layers, TRUE)

\* ------------------------------------------------------------------------
\* Events of the draw control
\* ------------------------------------------------------------------------
\* the layers of a delete event: up to MaxDeleted layers of any shape
DeletedLayers ==
    UNION {[1..n -> {Layer(Null, s) : s \in LayerShapes}] : n \in 0..MaxDeleted}

\* the layers of an edit event: up to MaxEdited layers, each the layer of one
\* stored polygon (field `of`, its JavaScript index) with its points after
\* the edit, in the order the layers were created
EditedLayers ==
    {ls \in UNION {[1..n -> {Layer(k, s) : k \in 0..(Len(polygons) - 1), s \in LayerShapes}]
                      : n \in 0..MaxEdited} :
        \A i \in 1..(Len(ls) - 1) : ls[i].of < ls[i + 1].of}

Created == \E latlngs \in CreateShapes : \E eager \in BOOLEAN : handleCreated(latlngs, eager)

Deleted == \E layers \in DeletedLayers : handleDeleted(layers)

Edited == \E layers \in EditedLayers : handleEdited(layers)

Next == Created \/ Deleted \/ Edited

Spec == Init /\ [][Next]_vars

\* ------------------------------------------------------------------------
\* Events that may be handled before React renders again: the state cells
\* hold the values the queued updates yield, `rendered` the `polygons` the
\* handlers still close over until Render
\* ------------------------------------------------------------------------
CreatedBeforeRender ==
    \E latlngs \in CreateShapes : \E eager \in BOOLEAN :
        handleCreatedThen(latlngs, eager, FALSE)

DeletedBeforeRender == \E layers \in DeletedLayers : handleDeletedThen(layers, FALSE)

EditedBeforeRender == \E layers \in EditedLayers : handleEditedThen(layers, FALSE)

Render ==
    /\ mounted
    /\ rendered # polygons
    /\ rendered' = polygons
    /\ UNCHANGED <<polygons, intersectingIndex, intersectingIndices, mounted,
                   lastEvent, pre, normVars, checkVars>>

NextBatched == CreatedBeforeRender \/ DeletedBeforeRender \/ EditedBeforeRender \/ Render

SpecBatched == Init /\ [][NextBatched]_vars

\* ------------------------------------------------------------------------
\* The normalizer on its own: toPosition applied to every LatLng list of up
\* to MaxLen points, and applied again to the LatLngs of its result
\* ------------------------------------------------------------------------
NormPoints == {LL(0, 0), LL(0, 1), LL(1, 0)}

NormInputs == UNION {[1..n -> NormPoints] : n \in 0..MaxLen}

InitNorm ==
    /\ InitCells
    /\ InitCheckIdle
    /\ normIn \in NormInputs
    /\ normOut = <<>>
    /\ normCalls = 0

Normalize ==
    /\ normCalls = 0
    /\ normOut' = toPosition(normIn)
    /\ normCalls' = 1
    /\ UNCHANGED <<cells, lastEvent, pre, normIn, checkVars>>

Renormalize ==
    /\ normCalls >= 1
    /\ normCalls < MaxCalls
    /\ normOut' = toPosition(toLatLngs(normOut))
    /\ normCalls' = normCalls + 1
    /\ UNCHANGED <<cells, lastEvent, pre, normIn, checkVars>>

NextNorm == Normalize \/ Renormalize

SpecNorm == InitNorm /\ [][NextNorm]_vars

\* ------------------------------------------------------------------------
\* The overlap checker on its own: checkIntersections applied to every ring
\* and every list of up to MaxPolys rings
\* ------------------------------------------------------------------------
CheckInputs == UNION {[1..n -> Rings] : n \in 0..MaxPolys}

InitCheck ==
    /\ InitCells
    /\ normIn = <<>>
    /\ normOut = <<>>
    /\ normCalls = 0
    /\ ckNewPolygon \in Rings
    /\ ckExistingPolygons \in CheckInputs
    /\ ckResult = Null
    /\ ckDone = FALSE

Check ==
    /\ ~ckDone
    /\ ckResult' = checkIntersections(ckNewPolygon, ckExistingPolygons)
    /\ ckDone' = TRUE
    /\ UNCHANGED <<cells, lastEvent, pre, normVars, ckNewPolygon, ckExistingPolygons>>

NextCheck == Check

SpecCheck == InitCheck /\ [][NextCheck]_vars

\* ------------------------------------------------------------------------
\* Properties
\* ------------------------------------------------------------------------
\* the JavaScript indices of the Store
Indices == 0..(Len(polygons) - 1)

\* the polygon with JavaScript index i
At(polys, i) == polys[i + 1]

\* polygon i of the Store conflicts with another polygon of the Store
ConflictsWithAnother(i) ==
    \E j \in Indices : j # i /\ Conflicts(At(polygons, i), At(polygons, j))

Completed(type) == lastEvent.type = type /\ ~lastEvent.threw

\* C1: no two polygons held in the Store conflict with each other.
C1_NoConflictInStore ==
    \A i \in Indices : \A j \in Indices :
        i # j => ~Conflicts(At(polygons, i), At(polygons, j))

\* C2: after an edit event, the Store entry of every edited layer whose points
\* changed holds the layer's new normalized point list, and every entry no
\* layer of the event belongs to is unchanged.
C2_EditReplacesEntry ==
    Completed("edited") =>
        /\ Len(polygons) = Len(pre.polygons)
        /\ \A n \in 1..Len(lastEvent.layers) :
              LET layer == lastEvent.layers[n]
              IN  toPosition(layer.latlngs) # At(pre.polygons, layer.of)
                    => At(polygons, layer.of) = toPosition(layer.latlngs)
        /\ \A i \in Indices :
              (\A n \in 1..Len(lastEvent.layers) : lastEvent.layers[n].of # i)
                    => At(polygons, i) = At(pre.polygons, i)

\* C3: after a create event whose new polygon conflicts with a stored polygon,
\* the new polygon and the first conflicting stored polygon are both drawn red.
C3_BothDrawnRed ==
    (/\ Completed("created")
     /\ checkIntersections(At(polygons, Len(polygons) - 1), pre.polygons) # Null)
        => /\ Color(Len(polygons) - 1) = "red"
           /\ Color(checkIntersections(At(polygons, Len(polygons) - 1), pre.polygons)) = "red"

\* C4: after an edit event a stored polygon is drawn red if and only if it
\* conflicts with at least one other polygon of the updated Store.
C4_RedIffConflicting ==
    Completed("edited") =>
        \A i \in Indices : (Color(i) = "red") <=> ConflictsWithAnother(i)

MatchesDeletedLayer(p) ==
    \E n \in 1..Len(lastEvent.layers) : p = toPosition(lastEvent.layers[n].latlngs)

KeptByDelete(p) == ~MatchesDeletedLayer(p)

\* C6: after a delete event the Store is the previous Store without the
\* polygons that equal the normalized point list of some deleted layer, the
\* others in their previous order; when none matches the Store is unchanged.
C6_DeleteRemovesMatches ==
    Completed("deleted") =>
        /\ polygons = SelectSeq(pre.polygons, KeptByDelete)
        /\ (\A i \in 1..Len(pre.polygons) : KeptByDelete(pre.polygons[i]))
              => polygons = pre.polygons

\* C6 witness: a delete event of two layers removed some polygons and kept others.
C6_Witness ==
    /\ Completed("deleted")
    /\ Len(lastEvent.layers) = 2
    /\ lastEvent.layers[1] # lastEvent.layers[2]
    /\ Len(polygons) > 0
    /\ Len(polygons) < Len(pre.polygons)

\* C7: after a delete event no intersection flag remains set: intersectingIndex
\* is null and intersectingIndices is empty.
C7_DeleteClearsFlags ==
    Completed("deleted") =>
        /\ intersectingIndex = Null
        /\ intersectingIndices = <<>>

C9_ShortListUnchanged ==
    (normCalls = 1 /\ Len(normIn) <= 2) => toLatLngs(normOut) = normIn

\* C9 (amended): of the point lists of length at most 2, toPosition returns
\* only the empty one unchanged; to a list of one or two points it appends a
\* copy of the first point.
C9_ShortListClosed ==
    (normCalls = 1 /\ Len(normIn) <= 2) =>
        IF Len(normIn) = 0
        THEN normOut = <<>>
        ELSE toLatLngs(normOut) = Append(normIn, normIn[1])

\* C9 witness: a list of two equal points was normalized to three positions.
C9_Witness ==
    /\ normCalls = 1
    /\ Len(normIn) = 2
    /\ normIn[1] = normIn[2]
    /\ Len(normOut) = 3

\* the LatLng list starts and ends with the same point
FirstIsLast(latlngs) == Len(latlngs) > 0 /\ latlngs[1] = latlngs[Len(latlngs)]

\* C10 (as claimed): toPosition returns a point list whose first point equals
\* its last point without appending, and so does normalizing the result again.
C10_ClosedIdempotent ==
    (normCalls >= 1 /\ FirstIsLast(normIn)) => toLatLngs(normOut) = normIn

\* C10 (amended): toPosition returns a point list of more than two points
\* whose first point equals its last point without appending, and so does
\* normalizing the result again.
C10_ClosedLongIdempotent ==
    (normCalls >= 1 /\ Len(normIn) > 2 /\ FirstIsLast(normIn))
        => toLatLngs(normOut) = normIn

\* C10 witness: an already closed list of four points was normalized twice.
C10_Witness ==
    /\ normCalls = 2
    /\ Len(normIn) = 4
    /\ FirstIsLast(normIn)
    /\ Len(normOut) = 4

\* C11: to a point list of more than two points whose first and last points
\* differ, toPosition appends one copy of the first point: the result starts
\* and ends with the same position and holds the original points in order.
C11_OpenListClosed ==
    (normCalls = 1 /\ Len(normIn) > 2 /\ ~FirstIsLast(normIn)) =>
        /\ Len(normOut) = Len(normIn) + 1
        /\ normOut[1] = normOut[Len(normOut)]
        /\ normOut[Len(normOut)] = <<normIn[1].lat, normIn[1].lng>>
        /\ \A i \in 1..Len(normIn) : normOut[i] = <<normIn[i].lat, normIn[i].lng>>

\* C11 witness: an open list of three points, whose first and last points
\* share their latitude only, was normalized to four positions.
C11_Witness ==
    /\ normCalls = 1
    /\ Len(normIn) = 3
    /\ normIn[1].lat = normIn[3].lat
    /\ normIn[1].lng # normIn[3].lng
    /\ Len(normOut) = 4

\* the candidate conflicts with the polygon at JavaScript index i of the others
CkConflictsAt(i) == Conflicts(ckNewPolygon, At(ckExistingPolygons, i))

C13_StoredPolygonsClosed ==
    \A i \in Indices :
        Len(At(polygons, i)) > 2 =>
            At(polygons, i)[1] = At(polygons, i)[Len(At(polygons, i))]

\* C13 witness: a shape reported without its closing point was stored, and a
\* later edit event left it in the Store.
C13_Witness ==
    /\ Completed("edited")
    /\ Len(polygons) = 2
    /\ \A i \in Indices : Len(At(polygons, i)) = 4

\* C14: every event is handled against the latest Store, also when React has
\* not rendered since the event before it: the Store after the handler is what
\* the handler yields on the Store the previous handler left, so no update
\* is lost.
C14_HandledAgainstLatestStore ==
    /\ Completed("created") =>
          polygons = pre.polygons \o <<toPosition(lastEvent.layers[1].latlngs)>>
    /\ Completed("deleted") =>
          polygons = remainingFrom(pre.polygons, lastEvent.layers, 1, <<>>)
    /\ Completed("edited") =>
          polygons = applyEdits(pre.polygons, lastEvent.layers, 1, pre.polygons)

\* the normalized points of layer n of the last event equal no polygon the
\* Store held when the event arrived
MatchesNoEntry(n) ==
    \A i \in 1..Len(pre.polygons) :
        toPosition(lastEvent.layers[n].latlngs) # pre.polygons[i]

NewPolygonConflictsWithNone ==
    \A i \in 1..Len(pre.polygons) :
        ~Conflicts(toPosition(lastEvent.layers[1].latlngs), pre.polygons[i])

C17_RaisingEventLeavesStore ==
    /\ (/\ lastEvent.type = "created"
        /\ ~ValidRing(toPosition(lastEvent.layers[1].latlngs)))
          => /\ lastEvent.threw
             /\ ~mounted
             /\ polygons = pre.polygons
    /\ lastEvent.threw => polygons = pre.polygons

\* C17 witness: the first create event, of a two-point shape on the empty
\* Store, raised.
C17_Witness ==
    /\ lastEvent.type = "created"
    /\ lastEvent.threw
    /\ pre.polygons = <<>>
    /\ polygons = <<>>

\* C18: intersectingIndex is null or the index of the last polygon of the
\* Store, hence a valid index, and at most one polygon is drawn red.
C18_IndexNullOrLast ==
    /\ intersectingIndex = Null \/ intersectingIndex = Len(polygons) - 1
    /\ intersectingIndex # Null => intersectingIndex \in Indices
    /\ Cardinality({i \in Indices : Color(i) = "red"}) <= 1

\* C18 witness: the last of three polygons is flagged, and still is after an
\* edit event.
C18_Witness ==
    /\ Completed("edited")
    /\ Len(polygons) = 3
    /\ intersectingIndex = 2
    /\ Color(2) = "red"

====
